---- MODULE Spec2Model ----
(***************************************************************************)
(* cloudstash: the sqlite metadata catalog (package sqlite), the older     *)
(* internal/db catalog client, the per-drive remote lock, the bootstrap    *)
(* probe for the catalog drive and the shutdown path of main.              *)
(*                                                                         *)
(* A catalog row keeps the columns the properties below speak about:       *)
(* inode, name, parent and type.  url, size, mode and hash are carried by  *)
(* the statements unchanged and constrain nothing.                         *)
(***************************************************************************)
EXTENDS Integers, Sequences, FiniteSets, TLC

VARIABLES
    files,      \* rows of the files table
    seq,        \* sqlite_sequence entry of the files table
    everHeld,   \* history: every inode a row has held so far
    nops,       \* number of statements executed
    ret,        \* what the last catalog call returned
    lock,       \* the remote lock of the shared drive and the mounts using it:
                \*   lockObj  whether cloudstash.lock exists on the drive
                \*   lpc      per mount: position in Lock / Unlock
                \*   waited   per mount: time spent polling in the current Lock
                \*   forced   history: a Lock timed out and removed the lock
                \*   raced    history: a Lock put its lock file over another
    boot,       \* findDBDrive:
                \*   drives   the slice of drives
                \*   bidx     position of the range loop
                \*   bres     the returned (drive, error)
    sig         \* main and handleSignal:
                \*   mpc      main goroutine
                \*   hpc      handleSignal goroutine
                \*   signalCh buffered channel of size 1
                \*   mounted  whether the FUSE mount is up
                \*   inflight VFS requests being served
                \*   wg       WaitGroup counter
                \*   cleaned  whether the deferred m.Clean() ran
                \*   nsignals signals sent to the process so far

catVars == <<files, seq, everHeld, nops, ret>>

vars == <<files, seq, everHeld, nops, ret, lock, boot, sig>>

(* ---- bounds ---- *)
MaxInode == 3
MaxOps == 3

(* ---- values ---- *)
DrvFile == 0
DrvFolder == 1
Types == {DrvFile, DrvFolder}
Names == {"a", "1"}
Inodes == 1..MaxInode
Parents == 0..MaxInode

ErrNil == "nil"
ErrNotFound == "ErrNotFound"
ErrGeneric == "errorString"

UniqueNameParent == "UNIQUE constraint failed: files.name, files.parent"
UniqueInode == "UNIQUE constraint failed: files.inode"
NoCause == ""

Row(i, n, p, t) == [inode |-> i, name |-> n, parent |-> p, type |-> t]

RootRow == Row(1, "", 0, DrvFolder)

SetMax(S) == CHOOSE x \in S : \A y \in S : y <= x

InodesOf(F) == {r.inode : r \in F}

(* ---- sqlite column affinity, as applied to bound parameters ---- *)
(* an INTEGER bound to a comparison with a TEXT column is rendered as text *)
IntToText(n) ==
    CASE n = 0 -> "0" [] n = 1 -> "1" [] n = 2 -> "2" [] n = 3 -> "3"
      [] n = 4 -> "4" [] n = 5 -> "5" [] OTHER -> "big"

(* a TEXT bound to a comparison with an INTEGER column is converted when it
   is a well-formed integer literal and is otherwise left as text, which
   equals no integer; -1 stands for "stays text" *)
TextToInt(s) ==
    CASE s = "0" -> 0 [] s = "1" -> 1 [] s = "2" -> 2 [] s = "3" -> 3
      [] s = "4" -> 4 [] s = "5" -> 5 [] OTHER -> -1

(* ---- results ---- *)
Md(r, nlink) ==
    [inode |-> r.inode, name |-> r.name, parent |-> r.parent,
     type |-> r.type, nlink |-> nlink]

Result(err, cause, out) == [err |-> err, cause |-> cause, out |-> out]

(* ---- constraint checks of the files table ---- *)
(* as the mutant, the schema without its UNIQUE("name", "parent") *)
ClashNameParent_NoConstraint(F, self, n, p) == FALSE

ClashNameParent(F, self, n, p) ==
    \E r \in F : r.inode # self /\ r.name = n /\ r.parent = p

ClashInode(F, i) == i \in InodesOf(F)

(* AUTOINCREMENT: one more than the largest rowid the table ever held;
   as the mutant, a plain INTEGER PRIMARY KEY: one more than the largest
   rowid now in the table *)
NextRowid_NoAutoincrement(F, s) == SetMax(InodesOf(F) \cup {0}) + 1

NextRowid(F, s) == SetMax(InodesOf(F) \cup {s}) + 1

(* ---- fillNLink; as the mutant, the count is not restricted to folders ---- *)
fillNLink_AllChildren(F, r) ==
    IF r.type = DrvFile
      THEN Md(r, 1)
      ELSE Md(r, Cardinality({c \in F : c.parent = r.inode}) + 2)

fillNLink(F, r) ==
    IF r.type = DrvFile
      THEN Md(r, 1)
      ELSE Md(r, Cardinality({c \in F : c.parent = r.inode /\ c.type = DrvFolder}) + 2)

(* ---- queries ---- *)
Search(F, parent, name) ==
    LET hit == {r \in F : r.name = name /\ r.parent = parent}
    IN  IF hit = {}
          THEN Result(ErrNotFound, NoCause, {})
          ELSE Result(ErrNil, NoCause, {Md(r, 0) : r \in hit})

Get(F, inode) ==
    LET hit == {r \in F : r.inode = inode}
    IN  IF hit = {}
          THEN Result(ErrNotFound, NoCause, {})
          ELSE Result(ErrNil, NoCause, {fillNLink(F, r) : r \in hit})

GetChildren(F, parent) ==
    Result(ErrNil, NoCause,
           {fillNLink(F, r) : r \in {c \in F : c.parent = parent}})

(* ---- GetRows ---- *)
(* the rows of a table scan, in rowid order *)
RECURSIVE RowsByRowid(_)
RowsByRowid(F) ==
    IF F = {}
      THEN <<>>
      ELSE LET r == CHOOSE x \in F : \A y \in F : x.inode <= y.inode
           IN  <<r>> \o RowsByRowid(F \ {r})

(* SELECT * FROM files LIMIT limit OFFSET offset *)
SelectLimitOffset(F, limit, offset) ==
    LET all == RowsByRowid(F)
        last == IF offset + limit < Len(all) THEN offset + limit ELSE Len(all)
    IN  SubSeq(all, offset + 1, last)

(* the statement of GetRows has two placeholders; query.Query() hands it no
   arguments *)
GetRowsNumInput == 2
GetRowsArgs(limit, offset) == <<>>

ArgCount == "sql: expected 2 arguments, got 0"

(* Stmt.Query refuses a call whose argument count is not the statement's
   NumInput, before the statement runs *)
GetRows(F, limit, offset) ==
    LET args == GetRowsArgs(limit, offset) IN
    IF Len(args) # GetRowsNumInput
      THEN Result(ErrGeneric, ArgCount, <<>>)
      ELSE LET rows == SelectLimitOffset(F, args[1], args[2])
           IN  Result(ErrNil, NoCause,
                      [k \in 1..Len(rows) |-> fillNLink(F, rows[k])])

(* ---- the internal/db client: Search binds (parent, name) to the
   placeholders of "name=? and parent=?", and parseRow scans the parent
   column into Type and the type column into Parent ---- *)
dbParseRow(r) ==
    [inode |-> r.inode, name |-> r.name, parent |-> r.type,
     type |-> r.parent, nlink |-> 0]

dbSearch(F, parent, name) ==
    LET hit == {r \in F : r.name = IntToText(parent) /\ r.parent = TextToInt(name)}
    IN  IF hit = {}
          THEN Result(ErrNotFound, NoCause, {})
          ELSE Result(ErrNil, NoCause, {dbParseRow(r) : r \in hit})

(* ---- initial catalog: tableSchemas run by InitDB ---- *)
CatalogInit ==
    /\ files = {RootRow}
    /\ seq = 1
    /\ everHeld = {1}
    /\ nops = 0
    /\ ret = Result(ErrNil, NoCause, {})

(* ---- statements ---- *)
(* INSERT without an inode column: the rowid comes from AUTOINCREMENT *)
AutoInsert(n, p, t, nlink) ==
    LET i == NextRowid(files, seq) IN
    /\ UNCHANGED <<lock, boot, sig>>
    /\ nops < MaxOps
    /\ nops' = nops + 1
    /\ IF ClashNameParent(files, 0, n, p)
         THEN /\ ret' = Result(ErrGeneric, UniqueNameParent, {})
              /\ UNCHANGED <<files, seq, everHeld>>
         ELSE /\ i <= MaxInode
              /\ files' = files \cup {Row(i, n, p, t)}
              /\ seq' = i
              /\ everHeld' = everHeld \cup {i}
              /\ ret' = Result(ErrNil, NoCause,
                               IF nlink = 0 THEN {} ELSE {Md(Row(i, n, p, t), nlink)})

AddDirectory(parent, name) == AutoInsert(name, parent, DrvFolder, 2)

CreateFile(parent, name) == AutoInsert(name, parent, DrvFile, 1)

Insert(md) == AutoInsert(md.name, md.parent, md.type, 0)

ForceInsert(md) ==
    /\ UNCHANGED <<lock, boot, sig>>
    /\ nops < MaxOps
    /\ nops' = nops + 1
    /\ IF ClashInode(files, md.inode)
         THEN /\ ret' = Result(ErrGeneric, UniqueInode, {})
              /\ UNCHANGED <<files, seq, everHeld>>
         ELSE IF ClashNameParent(files, md.inode, md.name, md.parent)
         THEN /\ ret' = Result(ErrGeneric, UniqueNameParent, {})
              /\ UNCHANGED <<files, seq, everHeld>>
         ELSE /\ files' = files \cup {Row(md.inode, md.name, md.parent, md.type)}
              /\ seq' = IF md.inode > seq THEN md.inode ELSE seq
              /\ everHeld' = everHeld \cup {md.inode}
              /\ ret' = Result(ErrNil, NoCause, {})

Update(md) ==
    /\ UNCHANGED <<lock, boot, sig>>
    /\ nops < MaxOps
    /\ nops' = nops + 1
    /\ UNCHANGED <<seq, everHeld>>
    /\ IF ~ClashInode(files, md.inode)
         THEN /\ ret' = Result(ErrNil, NoCause, {})
              /\ UNCHANGED files
         ELSE IF ClashNameParent(files, md.inode, md.name, md.parent)
         THEN /\ ret' = Result(ErrGeneric, UniqueNameParent, {})
              /\ UNCHANGED files
         ELSE /\ files' = {r \in files : r.inode # md.inode}
                            \cup {Row(md.inode, md.name, md.parent, md.type)}
              /\ ret' = Result(ErrNil, NoCause, {})

Delete(inode) ==
    /\ UNCHANGED <<lock, boot, sig>>
    /\ nops < MaxOps
    /\ nops' = nops + 1
    /\ files' = {r \in files : r.inode # inode}
    /\ ret' = Result(ErrNil, NoCause, {})
    /\ UNCHANGED <<seq, everHeld>>

MdInputs == {Row(i, n, p, t) : i \in Inodes, n \in Names, p \in Parents, t \in Types}


(***************************************************************************)
(* The remote lock of a drive.  Lock and Unlock are methods of the Drive   *)
(* interface; the protocol is the one its comments and section 4.1         *)
(* describe.  The interface offers GetFileMetadata and a PutFile that      *)
(* overwrites, so looking for the lock object and creating it are two      *)
(* calls on the backend.  Time is counted in minutes.                      *)
(***************************************************************************)
lockTimeout == 5

Mounts == {"m1", "m2"}

LockIdle ==
    lock = [lockObj |-> FALSE,
            lpc |-> [m \in Mounts |-> "idle"],
            waited |-> [m \in Mounts |-> 0],
            forced |-> FALSE,
            raced |-> FALSE]

(* Lock, from the beginning: look for the lock object; block if it is there *)
LockStart(m) ==
    /\ lock.lpc[m] = "idle"
    /\ lock' = [lock EXCEPT !.lpc[m] = IF lock.lockObj THEN "polling" ELSE "creating",
                            !.waited[m] = 0]
    /\ UNCHANGED <<catVars, boot, sig>>

(* a minute passes for every blocked Lock *)
Tick ==
    /\ \E m \in Mounts : lock.lpc[m] = "polling" /\ lock.waited[m] < lockTimeout
    /\ lock' = [lock EXCEPT !.waited =
                  [m \in Mounts |->
                     IF lock.lpc[m] = "polling" /\ lock.waited[m] < lockTimeout
                       THEN lock.waited[m] + 1 ELSE lock.waited[m]]]
    /\ UNCHANGED <<catVars, boot, sig>>

(* Lock, blocked: the remote lock was removed, so it goes on to create its
   own; as the mutant, it returns without creating the lock object *)
LockSeesRemoved_NoCreate(m) ==
    /\ lock.lpc[m] = "polling"
    /\ ~lock.lockObj
    /\ lock' = [lock EXCEPT !.lpc[m] = "held"]
    /\ UNCHANGED <<catVars, boot, sig>>

LockSeesRemoved(m) ==
    /\ lock.lpc[m] = "polling"
    /\ ~lock.lockObj
    /\ lock' = [lock EXCEPT !.lpc[m] = "creating"]
    /\ UNCHANGED <<catVars, boot, sig>>

(* Lock, blocked longer than lockTimeout: remove the lock and start again
   from the beginning *)
LockTimesOut(m) ==
    /\ lock.lpc[m] = "polling"
    /\ lock.lockObj
    /\ lock.waited[m] >= lockTimeout
    /\ lock' = [lock EXCEPT !.lockObj = FALSE,
                            !.forced = TRUE,
                            !.lpc[m] = "idle",
                            !.waited[m] = 0]
    /\ UNCHANGED <<catVars, boot, sig>>

(* Lock creates the lock file and returns *)
LockCreate(m) ==
    /\ lock.lpc[m] = "creating"
    /\ lock' = [lock EXCEPT !.lockObj = TRUE,
                            !.raced = (lock.raced \/ lock.lockObj),
                            !.lpc[m] = "held"]
    /\ UNCHANGED <<catVars, boot, sig>>

(* Unlock removes the lock from the remote drive *)
Unlock(m) ==
    /\ lock.lpc[m] = "held"
    /\ lock' = [lock EXCEPT !.lockObj = FALSE, !.lpc[m] = "idle"]
    /\ UNCHANGED <<catVars, boot, sig>>

Holds(m) == lock.lpc[m] = "held"

(***************************************************************************)
(* findDBDrive.  A drive is what its GetFileMetadata("cloudstash.db")      *)
(* answers: the metadata of its copy, ErrNotFound, or another error.       *)
(* mtime is the age order of the copies on the backends (larger is newer); *)
(* drive.Metadata does not carry it.                                       *)
(***************************************************************************)
MaxDrives == 3
MaxMtime == 2

ProbeFound == "found"
ProbeNotFound == "ErrNotFound"
ProbeError == "error"

NoDrive == 0

DriveKinds ==
    {[probe |-> ProbeFound, mtime |-> t] : t \in 1..MaxMtime}
      \cup {[probe |-> ProbeNotFound, mtime |-> 0], [probe |-> ProbeError, mtime |-> 0]}

DriveLists == UNION {[1..n -> DriveKinds] : n \in 0..MaxDrives}

BootIdle ==
    boot = [drives |-> <<>>, bidx |-> 0, bres |-> [drv |-> NoDrive, err |-> "idle"]]

BootInit ==
    boot \in {[drives |-> d, bidx |-> 1, bres |-> [drv |-> NoDrive, err |-> "running"]] :
                d \in DriveLists}

(* one iteration of the range loop; as the mutant, any error is skipped *)
findDBDriveStep_SkipErrors ==
    /\ boot.bres.err = "running"
    /\ boot.bidx <= Len(boot.drives)
    /\ boot' = IF boot.drives[boot.bidx].probe # ProbeFound
                 THEN [boot EXCEPT !.bidx = boot.bidx + 1]
                 ELSE [boot EXCEPT !.bres = [drv |-> boot.bidx, err |-> ErrNil]]
    /\ UNCHANGED <<catVars, lock, sig>>

findDBDriveStep ==
    /\ boot.bres.err = "running"
    /\ boot.bidx <= Len(boot.drives)
    /\ boot' = IF boot.drives[boot.bidx].probe = ProbeNotFound
                 THEN [boot EXCEPT !.bidx = boot.bidx + 1]
               ELSE IF boot.drives[boot.bidx].probe = ProbeError
                 THEN [boot EXCEPT !.bres = [drv |-> NoDrive, err |-> ErrGeneric]]
                 ELSE [boot EXCEPT !.bres = [drv |-> boot.bidx, err |-> ErrNil]]
    /\ UNCHANGED <<catVars, lock, sig>>

(* the loop ran out of drives *)
findDBDriveEnd ==
    /\ boot.bres.err = "running"
    /\ boot.bidx > Len(boot.drives)
    /\ boot' = [boot EXCEPT !.bres = [drv |-> NoDrive, err |-> ErrNotFound]]
    /\ UNCHANGED <<catVars, lock, sig>>

Holders == {i \in 1..Len(boot.drives) : boot.drives[i].probe = ProbeFound}
Failing == {i \in 1..Len(boot.drives) : boot.drives[i].probe = ProbeError}
SetMin(S) == CHOOSE x \in S : \A y \in S : x <= y
findDBDriveReturned == boot.bres.err \notin {"idle", "running"}

(***************************************************************************)
(* main from the registration of the signal handler on, handleSignal and   *)
(* umount.  mpc and hpc name the statement a goroutine is at.              *)
(***************************************************************************)
MaxInflight == 2
MaxSignals == 3

Signals == {"SIGINT", "SIGTERM", "SIGQUIT"}

SigIdle ==
    sig = [mpc |-> "idle", hpc |-> "idle", signalCh |-> <<>>, mounted |-> FALSE,
           inflight |-> 0, wg |-> 0, cleaned |-> FALSE, nsignals |-> 0]

(* after wg.Add(1), signal.Notify, go handleSignal and the mount *)
SigInit ==
    sig = [mpc |-> "MountAndRun", hpc |-> "recv", signalCh |-> <<>>, mounted |-> TRUE,
           inflight |-> 0, wg |-> 1, cleaned |-> FALSE, nsignals |-> 0]

(* the runtime relays a signal without blocking: a full channel drops it *)
SignalArrives(s) ==
    /\ sig.mpc # "exited"
    /\ sig.nsignals < MaxSignals
    /\ sig' = [sig EXCEPT !.nsignals = sig.nsignals + 1,
                          !.signalCh = IF Len(sig.signalCh) < 1
                                         THEN Append(sig.signalCh, s)
                                         ELSE sig.signalCh]
    /\ UNCHANGED <<catVars, lock, boot>>

(* the kernel hands the mounted filesystem a request, and it is answered *)
VfsBegin ==
    /\ sig.mounted
    /\ sig.inflight < MaxInflight
    /\ sig' = [sig EXCEPT !.inflight = sig.inflight + 1]
    /\ UNCHANGED <<catVars, lock, boot>>

VfsEnd ==
    /\ sig.inflight > 0
    /\ sig' = [sig EXCEPT !.inflight = sig.inflight - 1]
    /\ UNCHANGED <<catVars, lock, boot>>

(* _ = <-ch *)
HandlerRecv ==
    /\ sig.hpc = "recv"
    /\ sig.signalCh # <<>>
    /\ sig' = [sig EXCEPT !.signalCh = Tail(sig.signalCh), !.hpc = "UMount"]
    /\ UNCHANGED <<catVars, lock, boot>>

(* umount, called in the handler's own goroutine: fuse.UMount(mountpoint).
   A busy mount may stay mounted. *)
HandlerUMount ==
    /\ sig.hpc = "UMount"
    /\ \/ sig' = [sig EXCEPT !.mounted = FALSE, !.hpc = "send"]
       \/ sig.inflight > 0 /\ sig' = [sig EXCEPT !.hpc = "send"]
    /\ UNCHANGED <<catVars, lock, boot>>

(* done is unbuffered: a send completes only while another goroutine is
   receiving from it, and the one receive is the select of handleSignal *)
DoneReceiverReady == sig.hpc = "select"

(* umount: ch <- true *)
HandlerSend ==
    /\ sig.hpc = "send"
    /\ DoneReceiverReady
    /\ sig' = [sig EXCEPT !.hpc = "sleep"]
    /\ UNCHANGED <<catVars, lock, boot>>

(* time.Sleep(5 * time.Second) *)
HandlerSleep ==
    /\ sig.hpc = "sleep"
    /\ sig' = [sig EXCEPT !.hpc = "select"]
    /\ UNCHANGED <<catVars, lock, boot>>

(* select: receive from done and return (the deferred wg.Done() runs) when
   a sender is waiting, else warn that the device is busy and loop.  The
   one send on done is umount's, made by this same goroutine. *)
DoneSenderReady == sig.hpc = "send"

HandlerSelect ==
    /\ sig.hpc = "select"
    /\ sig' = IF DoneSenderReady
                THEN [sig EXCEPT !.hpc = "returned", !.wg = sig.wg - 1]
                ELSE [sig EXCEPT !.hpc = "sleep"]
    /\ UNCHANGED <<catVars, lock, boot>>

(* fuse.MountAndRun returns once the filesystem is unmounted *)
MountAndRunReturns ==
    /\ sig.mpc = "MountAndRun"
    /\ ~sig.mounted
    /\ sig' = [sig EXCEPT !.mpc = "wg.Wait"]
    /\ UNCHANGED <<catVars, lock, boot>>

(* wg.Wait() returns, main returns and the deferred m.Clean() runs *)
MainWaitReturns ==
    /\ sig.mpc = "wg.Wait"
    /\ sig.wg = 0
    /\ sig' = [sig EXCEPT !.cleaned = TRUE, !.mpc = "exited"]
    /\ UNCHANGED <<catVars, lock, boot>>

(***************************************************************************)
(* Specifications                                                          *)
(***************************************************************************)
Init == CatalogInit /\ LockIdle /\ BootIdle /\ SigIdle

Next ==
    \/ \E p \in Parents, n \in Names : AddDirectory(p, n)
    \/ \E p \in Parents, n \in Names : CreateFile(p, n)
    \/ \E md \in {m \in MdInputs : m.inode = 1} : Insert(md)
    \/ \E md \in MdInputs : ForceInsert(md)
    \/ \E md \in MdInputs : Update(md)
    \/ \E i \in Inodes : Delete(i)

Spec == Init /\ [][Next]_vars

InitLock == CatalogInit /\ LockIdle /\ BootIdle /\ SigIdle

NextLock ==
    \/ \E m \in Mounts : LockStart(m)
    \/ Tick
    \/ \E m \in Mounts : LockSeesRemoved(m)
    \/ \E m \in Mounts : LockTimesOut(m)
    \/ \E m \in Mounts : LockCreate(m)
    \/ \E m \in Mounts : Unlock(m)

SpecLock == InitLock /\ [][NextLock]_vars

InitBoot == CatalogInit /\ LockIdle /\ BootInit /\ SigIdle

NextBoot == findDBDriveStep \/ findDBDriveEnd

SpecBoot == InitBoot /\ [][NextBoot]_vars

InitShutdown == CatalogInit /\ LockIdle /\ BootIdle /\ SigInit

(* HandlerSend, HandlerSleep, HandlerSelect and MainWaitReturns are enabled in
   no state main and handleSignal can reach *)
NextShutdown ==
    \/ \E s \in Signals : SignalArrives(s)
    \/ VfsBegin
    \/ VfsEnd
    \/ HandlerRecv
    \/ HandlerUMount
    \/ MountAndRunReturns

GoroutineSteps == HandlerRecv \/ HandlerUMount \/ MountAndRunReturns

SpecShutdown == InitShutdown /\ [][NextShutdown]_vars

(* the scheduler runs every goroutine that can take a step, and every
   request the filesystem serves is answered *)
SpecShutdownFair ==
    /\ InitShutdown
    /\ [][NextShutdown]_vars
    /\ WF_vars(GoroutineSteps)
    /\ WF_vars(VfsEnd)

(***************************************************************************)
(* Properties                                                              *)
(***************************************************************************)
RowOf(m) == Row(m.inode, m.name, m.parent, m.type)

ChildFolders(F, i) == {c \in F : c.parent = i /\ c.type = DrvFolder}

(* C1: every row other than the root (inode 1) has a parent equal to the
   inode of an existing row of type FOLDER. *)
C1_ParentIsFolder ==
    \A r \in files :
        r.inode # 1 => \E q \in files : q.inode = r.parent /\ q.type = DrvFolder

(* C2: exactly one row has inode 1 in every reachable catalog. *)
C2_ExactlyOneRoot == Cardinality({r \in files : r.inode = 1}) = 1

(* C3: no two distinct rows have the same (parent, name). *)
C3_UniqueParentName ==
    \A r \in files : \A q \in files :
        (r.parent = q.parent /\ r.name = q.name) => r = q

(* C3 witness: a statement was refused for (parent, name) while the table
   holds several rows. *)
C3_Witness ==
    /\ ret.err = ErrGeneric
    /\ ret.cause = UniqueNameParent
    /\ Cardinality(files) >= 3

(* C4 as stated: every newly created row, ForceInsert's included, gets an
   inode larger than every inode a row has ever held. *)
C4_AllInsertsIncrease ==
    [][\A r \in files' :
          r.inode \notin InodesOf(files) => \A h \in everHeld : r.inode > h]_vars

(* C4 amended: a statement that adds a row adds exactly one, under an inode
   no existing row holds.  The row of AddDirectory, CreateFile or Insert gets
   an inode larger than every inode a row has ever held, deleted rows and
   rows put by ForceInsert included; a row at or below an inode that was
   held before is the row of a ForceInsert that no Insert could have
   written. *)
C4_AutoincrementIncreases ==
    [][Cardinality(files') > Cardinality(files) =>
         \E r \in files' \ files :
            /\ files' = files \cup {r}
            /\ r.inode \notin InodesOf(files)
            /\ \/ \A h \in everHeld \cup InodesOf(files) : r.inode > h
               \/ ForceInsert(r) /\ ~Insert(r)]_vars

(* C4 witness: inode 2 was held and deleted, and CreateFile then made row 3. *)
C4_Witness ==
    /\ ret.err = ErrNil
    /\ 2 \in everHeld \ InodesOf(files)
    /\ \E m \in ret.out : m.inode = 3 /\ m.nlink = 1 /\ RowOf(m) \in files

(* C5: Get(inode) and every element of GetChildren(parent) carry nlink 1
   for a FILE row and 2 plus the number of child FOLDER rows for a FOLDER
   row. *)
NLinkAsDerived(m) ==
    /\ RowOf(m) \in files
    /\ m.type = DrvFile => m.nlink = 1
    /\ m.type = DrvFolder => m.nlink = 2 + Cardinality(ChildFolders(files, m.inode))

C5_NLink ==
    /\ \A r \in files :
          /\ Get(files, r.inode).err = ErrNil
          /\ \E m \in Get(files, r.inode).out : RowOf(m) = r
          /\ \E m \in GetChildren(files, r.parent).out : RowOf(m) = r
    /\ \A i \in Inodes : \A m \in Get(files, i).out : NLinkAsDerived(m)
    /\ \A p \in Parents : \A m \in GetChildren(files, p).out : NLinkAsDerived(m)

(* C5 witness: a folder with one child folder and one child file, returned
   by Get with nlink 3, and its child file returned by GetChildren. *)
C5_Witness ==
    \E r \in files :
        /\ r.type = DrvFolder
        /\ \E m \in Get(files, r.inode).out : m.nlink = 3
        /\ \E m \in GetChildren(files, r.inode).out : m.type = DrvFile /\ m.nlink = 1
        /\ \E m \in GetChildren(files, r.inode).out : m.type = DrvFolder /\ m.nlink = 2

(* C6 as stated, for the runs in which no Lock put its lock file over an
   existing one: the two mounts never hold the lock at the same instant. *)
C6_MutualExclusion == ~lock.raced => ~(Holds("m1") /\ Holds("m2"))

(* C6 amended: the two mounts hold the lock at the same instant only after a
   Lock call has timed out and removed the lock object itself, or after a
   Lock call has put its lock file over one created since it looked. *)
C6_ExclusionUntilTimeout == (Holds("m1") /\ Holds("m2")) => (lock.forced \/ lock.raced)

(* C6 witness: one mount holds the lock and the other has polled up to the
   timeout, no Lock having timed out or overwritten a lock before. *)
C6_Witness ==
    /\ ~lock.forced
    /\ ~lock.raced
    /\ \E m \in Mounts : \E o \in Mounts :
          Holds(m) /\ lock.lpc[o] = "polling" /\ lock.waited[o] = lockTimeout

(* C7: Search(parent, name) of both clients returns the row with that parent
   and that name when there is one and NOT_FOUND when there is none. *)
SearchAnswers(res, parent, name) ==
    LET want == {r \in files : r.parent = parent /\ r.name = name}
    IN  IF want = {}
          THEN res.err = ErrNotFound
          ELSE res.err = ErrNil /\ {RowOf(m) : m \in res.out} = want

C7_SearchBothClients ==
    \A p \in Parents : \A n \in Names \cup {""} :
        /\ SearchAnswers(Search(files, p, n), p, n)
        /\ SearchAnswers(dbSearch(files, p, n), p, n)

(* C8: a call refused because another row holds its (parent, name) returns
   the CONFLICT error kind and leaves the rows unchanged. *)
ErrConflict == "CONFLICT"

C8_ConflictKind ==
    [][(nops' # nops /\ ret'.cause = UniqueNameParent)
          => (ret'.err = ErrConflict /\ files' = files)]_vars

(* C9 as stated: of the drives that hold cloudstash.db the newest copy's
   drive is selected, whatever the order of the list; NOT_FOUND when no drive
   holds it. *)
C9_NewestWins ==
    (findDBDriveReturned /\ Failing = {}) =>
        IF Holders = {}
          THEN boot.bres.err = ErrNotFound
          ELSE /\ boot.bres.err = ErrNil
               /\ boot.bres.drv \in Holders
               /\ \A h \in Holders : boot.drives[boot.bres.drv].mtime >= boot.drives[h].mtime

(* C9 amended: the drive selected is the first in list order that holds
   cloudstash.db, unless a drive before it fails with an error other than
   not-found, which findDBDrive then returns; NOT_FOUND when no drive holds it
   and none fails. *)
C9_FirstInListWins ==
    findDBDriveReturned =>
        IF Holders \cup Failing = {}
          THEN boot.bres = [drv |-> NoDrive, err |-> ErrNotFound]
          ELSE IF SetMin(Holders \cup Failing) \in Holders
          THEN boot.bres = [drv |-> SetMin(Holders \cup Failing), err |-> ErrNil]
          ELSE boot.bres = [drv |-> NoDrive, err |-> ErrGeneric]

(* C9 witness: several drives hold the file, and the one returned holds an
   older copy than another. *)
C9_Witness ==
    /\ findDBDriveReturned
    /\ boot.bres.err = ErrNil
    /\ boot.bres.drv > 1
    /\ \E h \in Holders : boot.drives[h].mtime > boot.drives[boot.bres.drv].mtime

(* C10: once a shutdown signal is delivered, handleSignal returns, main's
   wg.Wait() completes and the process ends with m.Clean() run. *)
C10_ShutdownCompletes ==
    (sig.signalCh # <<>>) ~> (sig.hpc = "returned" /\ sig.mpc = "exited" /\ sig.cleaned)

(* the inode the parent link of row i leads to; 0, the inode of no row, when
   the table has no row i *)
ParentOf(F, i) ==
    IF \E r \in F : r.inode = i
      THEN (CHOOSE r \in F : r.inode = i).parent
      ELSE 0

(* where k steps along the parent links lead from inode i *)
RECURSIVE Up(_, _, _)
Up(F, i, k) == IF k = 0 THEN i ELSE Up(F, ParentOf(F, i), k - 1)

ReachesRoot(F, i) ==
    \E k \in 0..Cardinality(F) :
        /\ Up(F, i, k) = 1
        /\ \A j \in 0..k : \E r \in F : r.inode = Up(F, i, j)

OwnAncestor(F, i) == \E k \in 1..Cardinality(F) : Up(F, i, k) = i

(* C11: the parent links form a tree rooted at inode 1: following parent
   from any row reaches the root row in finitely many steps, and no row is
   its own ancestor. *)
C11_ParentTree ==
    \A r \in files : ReachesRoot(files, r.inode) /\ ~OwnAncestor(files, r.inode)

(* no row is its own ancestor, taken alone *)
C11_NoCycle == \A r \in files : ~OwnAncestor(files, r.inode)

(* C12: for every limit >= 0 and offset >= 0, GetRows(limit, offset)
   succeeds and returns the rows of the files table starting at position
   offset, at most limit of them, each with its nlink filled in. *)
C12_GetRows ==
    \A limit \in 0..MaxInode, offset \in 0..MaxInode :
        LET g == GetRows(files, limit, offset)
            want == SelectLimitOffset(files, limit, offset)
        IN  /\ g.err = ErrNil
            /\ Len(g.out) = Len(want)
            /\ \A k \in 1..Len(want) :
                  RowOf(g.out[k]) = want[k] /\ NLinkAsDerived(g.out[k])
====
